---- MODULE Spec2Model ----
(***************************************************************************)
(* Model of substack2markdown (src/substack2markdown/substack_scraper.py). *)
(* A sequence of runs of the scraper over one output tree.  A run builds   *)
(* the URL list, iterates scrape_posts over it (normalize -> images ->     *)
(* comments -> write/append, each of which may raise into the per-post     *)
(* except clause), then merges the batch into posts.json and renders the   *)
(* index page.                                                             *)
(***************************************************************************)
EXTENDS Integers, Sequences, FiniteSets, TLC

\* ---------------------------------------------------------------- bounds
MaxPosts == 2      \* posts of the publication (post URLs / slugs 1..MaxPosts)
MaxUrls  == 2      \* length of a discovered URL list
MaxNum   == 1      \* largest value of --number
MaxComments == 4   \* comments (roots and replies) of one comments preload

\* ---------------------------------------------------- program constants
MaxFilenameLen == 100     \* len(filename) > 100 -> hash-based name

\* ------------------------------------------------------------ the inputs
Urls == 1..MaxPosts

\* every list of at most MaxUrls post URLs
UrlLists == UNION {[1..n -> Urls] : n \in 0..MaxUrls}

\* what the publication serves during one run: the fields (title, like
\* count, body ...) of its posts before and after an edit.  The code never
\* looks into them except for the image references of the body.
Versions == {"a", "b"}

\* the id that the post preload of URL u carries (post_preloads["post"]["id"])
IdOf(u) == u

\* CDN image URLs as far as sanitize_image_filename looks at them:
\*   up   - the URL contains the "/https%3A%2F%2F" segment
\*   flen - length of the last path segment of the decoded upstream URL,
\*          after the invalid characters are removed
U_named == [up |-> TRUE,  flen |-> 8]
U_empty == [up |-> TRUE,  flen |-> 0]
U_nosrc == [up |-> FALSE, flen |-> 0]

\* the bodies served by the site: the sequence of CDN references matched by
\* the pattern of process_markdown_images, per post and version
\* (post 1 carries the same reference twice before the edit, and a reference
\* without a usable file name followed by one without an upstream URL after
\* it; the other posts carry a reference without an upstream URL, or none)
BodyOf(u, v) ==
    IF u = 1 THEN (IF v = "a" THEN <<U_named, U_named>> ELSE <<U_empty, U_nosrc>>)
    ELSE (IF v = "a" THEN <<U_nosrc>> ELSE <<>>)

\* command line of a run.  --no-json only decides whether the per-post JSON
\* artifacts are written, which the model does not track; --no-comments only
\* skips the comments stage, which is the outcome "ok" of that stage.
\* --number is absent (0: no limit) or the limit MaxNum.
ArgsSet == [offline : BOOLEAN, no_images : BOOLEAN, number : {0, MaxNum}]

NoArgs == [offline |-> FALSE, no_images |-> FALSE, number |-> 0]

NoPath == <<0, "">>

VARIABLES
    indexExists,    \* os.path.exists(posts_json_path)
    index,          \* content of posts.json: sequence of PostRecord
    imgFiles,       \* image paths that exist in the output tree
    args,           \* self.args of the current run
    siteVer,        \* what the site (offline: the stored JSON) serves in this run
    post_urls,      \* self.post_urls
    pos,            \* position of the for loop in post_urls
    count,          \* count
    posts_data,     \* posts_data, the batch of the run
    pc,             \* position of the run
    md,             \* image references of the body being processed
    imgPos,         \* position of finditer in md
    mdOut,          \* paths written into the Markdown so far
    existing_data,  \* what save_posts_data_json loaded from posts.json
    existedBefore,  \* whether posts.json existed when it was called
    raised,         \* history: the last step ended in the except clause
    lastDl,         \* history: path of the download_image call of this step
    dlCalled,       \* history: paths download_image was called for
    dlNoFile,       \* history: paths whose last download call left no file
    netOps,         \* history: the network operations invoked by this step
    paywalled,      \* history: get_url_soup returned None in this step
    error,          \* history: the exception that this step's except clause got
    fn_pc,          \* position of a function examined on its own
    \* one image reference seen by the path template resolver
    templates,      \* the path formats of the command line and the cwd
    md_directory,   \* self.format_vars["md_directory"]
    save_path,      \* save_path of process_markdown_images
    rel_path,       \* what process_markdown_images writes into the Markdown
    \* one post seen by the two branches of the post normalizer
    soup,           \* the fetched page: its elements and its preload script
    post_preloads,  \* content of post.json
    online_fields,  \* (title, subtitle, like_count, date) of the online branch
    offline_fields, \* the same of the offline branch
    \* an archive read back by get_all_post_urls_offline
    posts_json,     \* content of posts.json under the chosen path formats
    scraped,        \* history: slugs of the posts the online runs archived
    offline_urls,   \* what get_all_post_urls_offline returns
    \* the comments of one post
    comments_preloads,  \* the comments preload
    no_comments,        \* self.args.no_comments
    comments_num,       \* comments_num of scrape_posts
    comments_html,      \* what render_comments_html wrote, token by token
    md_comments,        \* what scrape_posts appended to md after the body
    comment_count       \* "comment_count" of the appended record

\* the path computation of one image reference
pathVars == <<templates, md_directory, save_path, rel_path>>

\* the functions that are examined on their own, outside a run
\* the normalization of one post
extractVars == <<soup, post_preloads, online_fields, offline_fields>>

\* the reconstruction of the URL list
offlineVars == <<posts_json, scraped, offline_urls>>

\* the comments stage of one post
commentVars == <<comments_preloads, no_comments, comments_num, comments_html,
                 md_comments, comment_count>>

fnVars == <<fn_pc, pathVars, extractVars, offlineVars, commentVars>>

vars == <<indexExists, index, imgFiles, args, siteVer, post_urls, pos, count,
          posts_data, pc, md, imgPos, mdOut, existing_data, existedBefore,
          raised, lastDl, dlCalled, dlNoFile, netOps, paywalled, error,
          fnVars>>

\* the output tree, and what is only recorded about it
persistVars == <<indexExists, index, imgFiles, dlCalled, dlNoFile>>
\* the run's configuration
runVars == <<args, siteVer, post_urls>>
\* the post being processed
postVars == <<md, imgPos, mdOut>>
\* locals of save_posts_data_json
saveVars == <<existing_data, existedBefore>>

\* --------------------------------------------------------------- helpers
Range(s) == {s[i] : i \in DOMAIN s}
Ids(s) == [i \in DOMAIN s |-> s[i].id]
IdSet(s) == {s[i].id : i \in DOMAIN s}

\* posts_data.append({...}) of scrape_posts: the record of one post
PostRecord(u, v) == [id |-> IdOf(u), slug |-> u, ver |-> v]

\* ------------------------------------------------- save_posts_data_json
\* the sort is left out
SortDesc_none(s) == s

RECURSIVE InsertDesc(_, _)
InsertDesc(x, s) ==
    IF s = <<>> THEN <<x>>
    ELSE IF Head(s).id <= x.id THEN <<x>> \o s
    ELSE <<Head(s)>> \o InsertDesc(x, Tail(s))

\* posts_data.sort(key=lambda p: -1*p["id"]): stable, descending by id
RECURSIVE SortDesc(_)
SortDesc(s) ==
    IF s = <<>> THEN <<>> ELSE InsertDesc(Head(s), SortDesc(Tail(s)))

NewPostIds(batch) == IdSet(batch)

\* nothing is removed from the loaded list
FilterExisting_keepAll(existing, batch) == existing

\* existing_data = [p for p in posts_data if p["id"] not in new_post_ids]
\* (the comprehension iterates posts_data, not the loaded existing_data)
FilterExisting(existing, batch) ==
    SelectSeq(batch, LAMBDA p : p.id \notin NewPostIds(batch))

\* the persisted record wins: the batch is filtered instead
MergePosts_existingWins(existing, batch) ==
    existing \o SelectSeq(batch, LAMBDA p : p.id \notin IdSet(existing))

\* posts_data = existing_data + posts_data
MergePosts(existing, batch) == FilterExisting(existing, batch) \o batch

\* the sort is part of the branch that merges
SavePostsData_sortOnlyMerged(existing, exists, batch) ==
    IF exists THEN SortDesc(MergePosts(existing, batch)) ELSE batch

\* the list written to posts.json
SavePostsData(existing, exists, batch) ==
    SortDesc(IF exists THEN MergePosts(existing, batch) ELSE batch)

\* the caller's list after the call: sorted in place only when no file
\* existed (otherwise posts_data was rebound to a new list before the sort)
CallerListAfterSave(exists, batch) ==
    IF exists THEN batch ELSE SortDesc(batch)

\* ------------------------------------------------- exceptions
\* an exception as the except clause of scrape_posts sees it: what failed,
\* the class of the exception, and the post URLs its message holds
NoError == [cause |-> "none", type |-> "none", mentions |-> {}]
Raised(cause, type) == [cause |-> cause, type |-> type, mentions |-> {}]

\* the names that the body of get_window_preloads can read: its parameters
\* and locals, and the names of the module
GetWindowPreloadsScope ==
    {"self", "soup", "window_preloads", "script_element", "script_text",
     "pos1", "pos2", "json", "re", "requests"}

\* assert window_preloads, f"not found ... at {url!r}" with no script found:
\* the message is evaluated first, and reading a name that is not in scope
\* raises NameError in place of the AssertionError
MissingPreloadError(u) ==
    IF "url" \in GetWindowPreloadsScope
    THEN [cause |-> "no_preload", type |-> "AssertionError", mentions |-> {u}]
    ELSE [cause |-> "no_preload", type |-> "NameError", mentions |-> {}]

\* get_window_preloads(None): soup.select raises before the assert
NoneSoupError == Raised("comments", "AttributeError")

\* how the comments stage of a post can end
CommentsOutcomes(skip, offline) ==
    IF skip THEN {"ok"}
    ELSE IF offline THEN {"ok", "error"}
    ELSE {"ok", "error", "paywall"}

\* ------------------------------------------------- get_all_post_urls
\* a URL of the site that is not a post: it contains one of self.keywords
AboutUrl == 0

\* the <loc> entries of sitemap.xml, or the <item><link> entries of feed.xml
RawUrlLists == UNION {[1..n -> Urls \cup {AboutUrl}] : n \in 0..MaxUrls}

\* filter_urls(urls, self.keywords)
FilterUrls(urls) == SelectSeq(urls, LAMBDA u : u # AboutUrl)

\* urls = self.fetch_urls_from_sitemap(); if not urls: urls =
\* self.fetch_urls_from_feed(); return self.filter_urls(urls, self.keywords)
\* (a sitemap that cannot be fetched is the empty list)
GetAllPostUrls(sitemap, feed) ==
    FilterUrls(IF sitemap # <<>> THEN sitemap ELSE feed)

\* ------------------------------------------------- get_all_post_urls_offline
OfflineUrls(idx) == [i \in DOMAIN idx |-> idx[i].slug]

\* ------------------------------------------------- image pipeline
\* sanitize_image_filename: "raise" = IndexError of split(...)[1] or an
\* exception of requests.head; head is the outcome of requests.head
NeedsHash(url) == url.flen > MaxFilenameLen \/ url.flen = 0
HeadOutcomes == {"ok", "raise"}
\* requests.head is reached: split(...)[1] did not raise and the name is
\* empty or too long
HeadCalled(url) == url.up /\ NeedsHash(url)
ImageFilename(url, head) ==
    IF ~url.up THEN "raise"
    ELSE IF NeedsHash(url)
         THEN (IF head = "raise" THEN "raise" ELSE "md5.ext")
         ELSE "named"

\* image_path_template p/$post_slug/images/$image_filename under the root
SavePath(slug, filename) == <<slug, filename>>

\* the existence test is left out
NeedsDownload_always(path, files, offline) == ~offline

\* if not save_path.exists() and not self.args.offline
NeedsDownload(path, files, offline) == path \notin files /\ ~offline

\* download_image: ok = 200 and written; status = non-200 response;
\* exc_nofile = exception before open(); exc_partial = exception after open()
DownloadOutcomes == {"ok", "status", "exc_nofile", "exc_partial"}

\* the status test is inverted: only a non-200 response is written
DownloadStores_inverted(outcome) == outcome \in {"status", "exc_partial"}

\* the call leaves a file at save_path (open(save_path, 'wb') was reached)
DownloadStores(outcome) == outcome \in {"ok", "exc_partial"}

\* ------------------------------------------------- path templates
\* a path: whether it is absolute, and its components
NoPathValue == [abs |-> FALSE, parts |-> <<>>]

SlugName(u) == ToString(u)

\* the formats the command line can give (string.Template sources, split
\* at "/"): the defaults, a layout that separates Markdown and images, and
\* absolute formats
OutputDirectoryFormats ==
    { [abs |-> FALSE, parts |-> <<"$publication_domain">>],
      [abs |-> TRUE,  parts |-> <<"srv", "$publication_domain">>] }
MdPathFormats ==
    { [abs |-> FALSE, parts |-> <<"p", "$post_slug", "readme.md">>],
      [abs |-> FALSE, parts |-> <<"md", "$post_slug", "readme.md">>],
      [abs |-> TRUE,  parts |-> <<"data", "md", "$post_slug", "readme.md">>] }
HtmlPathFormats ==
    { [abs |-> FALSE, parts |-> <<"p", "$post_slug", "index.html">>],
      [abs |-> FALSE, parts |-> <<"$post_slug", "html", "index.html">>] }
PostsJsonPathFormat == [abs |-> FALSE, parts |-> <<"posts.json">>]
ImagePathFormats ==
    { [abs |-> FALSE, parts |-> <<"p", "$post_slug", "images", "$image_filename">>],
      [abs |-> FALSE, parts |-> <<"img", "$image_filename">>],
      [abs |-> TRUE,  parts |-> <<"data", "img", "$image_filename">>] }
WorkingDirectories ==
    { [abs |-> TRUE, parts |-> <<"home", "w">>],
      [abs |-> TRUE, parts |-> <<"data">>] }

TemplateInputs ==
    [output_directory_format : OutputDirectoryFormats,
     md_path_format : MdPathFormats,
     image_path_format : ImagePathFormats,
     html_path_format : HtmlPathFormats,
     cwd : WorkingDirectories,
     post_slug : {SlugName(u) : u \in Urls},
     image_filename : {"named", "md5.ext"}]

\* no command line has been read
NoTemplates == <<>>

\* self.format_vars (+ image_filename) as process_markdown_images uses it
FormatVars(t) ==
    [x \in {"$publication_domain", "$post_slug", "$image_filename"} |->
        CASE x = "$publication_domain" -> "pub.substack.com"
          [] x = "$post_slug" -> t.post_slug
          [] OTHER -> t.image_filename]

\* string.Template.substitute
Substitute(fmt, fv) ==
    [abs |-> fmt.abs,
     parts |-> [i \in DOMAIN fmt.parts |->
                  IF fmt.parts[i] \in DOMAIN fv THEN fv[fmt.parts[i]]
                  ELSE fmt.parts[i]]]

\* os.path.join(a, b): an absolute b discards a
PathJoin(a, b) ==
    IF b.abs THEN b ELSE [abs |-> a.abs, parts |-> a.parts \o b.parts]

\* os.path.dirname
DirName(p) ==
    [abs |-> p.abs,
     parts |-> IF p.parts = <<>> THEN <<>>
               ELSE SubSeq(p.parts, 1, Len(p.parts) - 1)]

\* os.path.isabs
IsAbs(p) == p.abs

\* os.path.abspath without the normalization
AbsPath(p, cwd) == IF p.abs THEN p ELSE PathJoin(cwd, p)

\* length of the common prefix of two component lists
RECURSIVE CommonPrefixLen(_, _)
CommonPrefixLen(a, b) ==
    IF a = <<>> \/ b = <<>> \/ Head(a) # Head(b) THEN 0
    ELSE 1 + CommonPrefixLen(Tail(a), Tail(b))

\* the path is taken relative to the working directory
RelPath_fromCwd(path, start, cwd) ==
    LET p == AbsPath(path, cwd).parts
        k == CommonPrefixLen(p, cwd.parts) IN
    [abs |-> FALSE,
     parts |-> [i \in 1..(Len(cwd.parts) - k) |-> ".."]
                 \o SubSeq(p, k + 1, Len(p))]

\* os.path.relpath(path, start)
RelPath(path, start, cwd) ==
    LET p == AbsPath(path, cwd).parts
        s == AbsPath(start, cwd).parts
        k == CommonPrefixLen(p, s) IN
    [abs |-> FALSE,
     parts |-> [i \in 1..(Len(s) - k) |-> ".."] \o SubSeq(p, k + 1, Len(p))]

\* rel_path = save_path; if not os.path.isabs(rel_path): rel_path = relpath
WrittenPath(save, md_dir, cwd) ==
    IF IsAbs(save) THEN save ELSE RelPath(save, md_dir, cwd)

\* ------------------------------------------------- post normalizer
\* Python values as far as == tells them apart: a str and an int differ
PyStr(s) == [type |-> "str", repr |-> s]
PyInt(n) == [type |-> "int", repr |-> ToString(n)]

\* "%d": day of the month, zero-padded
Pad2(n) == IF n < 10 THEN "0" \o ToString(n) ELSE ToString(n)
\* strftime("%b %d, %Y") of a date of October 2025
StrfDate(day) == PyStr("Oct " \o Pad2(day) \o ", 2025")

\* the "post" mapping of window._preloads
PostPreloads ==
    [title : {"T"}, description : {"D", ""}, hearts : {0, 7}, day : {1, 15}]
\* post.json has not been read
NoPreloads == <<>>

\* the page the site serves for a post: which of the elements that
\* extract_post_data selects are present (their text is that of the post),
\* and the preload script
PagesOf(p) ==
    [has_title : BOOLEAN, has_subtitle : BOOLEAN,
     date_from : {"div", "ld+json", "none"}, has_like_label : BOOLEAN,
     preloads : {p}]
\* no page has been fetched, no field extracted
NoSoup == <<>>
NoFields == <<>>

\* extract_post_data, without the body
ExtractPostData(page) ==
    [title |-> IF page.has_title THEN PyStr(page.preloads.title)
               ELSE PyStr("Untitled"),
     subtitle |-> IF page.has_subtitle THEN PyStr(page.preloads.description)
                  ELSE PyStr(""),
     date |-> IF page.date_from = "none" THEN PyStr("Date not found")
              ELSE StrfDate(page.preloads.day),
     like_count |-> IF page.has_like_label
                    THEN PyStr(ToString(page.preloads.hearts))
                    ELSE PyStr("0")]

\* extract_post_data_from_preloads, without the body
ExtractPostDataFromPreloads(p) ==
    [title |-> PyStr(p.title),
     subtitle |-> PyStr(p.description),
     date |-> StrfDate(p.day),
     like_count |-> PyInt(p.hearts)]

\* get_window_preloads on a page that has the script
GetWindowPreloads(page) == page.preloads

ExtractAtRest ==
    /\ soup = NoSoup
    /\ post_preloads = NoPreloads
    /\ online_fields = NoFields
    /\ offline_fields = NoFields

\* ------------------------------------------------- offline URL list
\* "html_link": os.path.relpath(html_filepath, posts_json_dir), split at "/"
HtmlLink(t) ==
    LET fv == FormatVars(t)
        output_directory == Substitute(t.output_directory_format, fv)
        html_filepath == PathJoin(output_directory,
                                  Substitute(t.html_path_format, fv))
        posts_json_dir == DirName(PathJoin(output_directory,
                                           Substitute(PostsJsonPathFormat, fv)))
    IN RelPath(html_filepath, posts_json_dir, t.cwd).parts

\* the record that scrape_posts appends for post u under the formats t
IndexRecord(u, t) ==
    [id |-> IdOf(u), slug |-> SlugName(u),
     html_link |-> HtmlLink([t EXCEPT !.post_slug = SlugName(u)])]

\* self.args.url + "p/" + slug, as the path of the URL
PostUrl(slug) == <<"p", slug>>

\* post["slug"] = post["html_link"].split("/")[-2];
\* urls.append(self.args.url + "p/" + post["slug"])
GetAllPostUrlsOffline(posts) ==
    [i \in DOMAIN posts |->
        PostUrl(posts[i].html_link[Len(posts[i].html_link) - 1])]

OfflineAtRest ==
    /\ posts_json = <<>>
    /\ scraped = {}
    /\ offline_urls = <<>>

\* ------------------------------------------------- comment tree
PyNone == [type |-> "NoneType", repr |-> "None"]

\* the shapes of the comment forests of exactly n comments: the first root
\* has k - 1 descendants, the roots after it hold the other n - k comments
RECURSIVE ForestShapes(_)
ForestShapes(n) ==
    IF n = 0 THEN {<<>>}
    ELSE UNION {
            {<<[children |-> kids]>> \o rest :
                kids \in ForestShapes(k - 1), rest \in ForestShapes(n - k)}
            : k \in 1..n}

\* user_id and name of an author, each of which can be null
Authors == [user_id : {PyNone, PyInt(7)}, name : {PyNone, PyStr("N")}]

\* the comments of a shape as the site sends them: the id of a comment is
\* its position in the tree, the author of a comment is who[0] on the even
\* levels of the tree and who[1] on the odd ones
RECURSIVE Comments_(_, _, _)
Comments_(shape, prefix, who) ==
    [i \in DOMAIN shape |->
        [type |-> "comment",
         id |-> Append(prefix, i),
         user_id |-> who[Len(prefix) % 2].user_id,
         name |-> who[Len(prefix) % 2].name,
         children |-> Comments_(shape[i].children, Append(prefix, i), who)]]

\* every comments preload of at most MaxComments comments
CommentsPreloads ==
    {[initialComments |-> Comments_(shape, <<>>, who)] :
        shape \in UNION {ForestShapes(n) : n \in 0..MaxComments},
        who \in [{0, 1} -> Authors]}
NoCommentsPreloads == [initialComments |-> <<>>]

\* res = 1; for child_comment in comment["children"]: res += inner(child)
RECURSIVE SumCounts(_, _)
RECURSIVE count_comments_inner(_)
\* only the direct replies are counted
count_comments_inner_flat(comment) == 1 + Len(comment.children)

count_comments_inner(comment) == 1 + SumCounts(comment.children, 0)
\* the for loops of count_comments and count_comments_inner
SumCounts(comments, res) ==
    IF comments = <<>> THEN res
    ELSE SumCounts(Tail(comments), res + count_comments_inner(Head(comments)))

\* count_comments
count_comments(preloads) == SumCounts(preloads.initialComments, 0)

\* the link is written when the name is present
RenderAuthor_linkByName(comment) ==
    (IF comment.name # PyNone
        THEN <<[tag |-> "a.user", arg |-> comment.user_id.repr]>> ELSE <<>>)
    \o <<[tag |-> "text",
          arg |-> IF comment.name # PyNone THEN comment.name.repr ELSE "null"]>>
    \o (IF comment.name # PyNone
        THEN <<[tag |-> "/a", arg |-> ""]>> ELSE <<>>)

\* the summary line up to the author: the profile link around the name, or
\* the name alone; "null" stands for a missing name
RenderAuthor(comment) ==
    (IF comment.user_id # PyNone
        THEN <<[tag |-> "a.user", arg |-> comment.user_id.repr]>> ELSE <<>>)
    \o <<[tag |-> "text",
          arg |-> IF comment.name # PyNone THEN comment.name.repr ELSE "null"]>>
    \o (IF comment.user_id # PyNone
        THEN <<[tag |-> "/a", arg |-> ""]>> ELSE <<>>)

\* render_comments_html_inner: the writes to buf, one token per element
RECURSIVE RenderAll(_, _)
RECURSIVE render_comments_html_inner(_)
render_comments_html_inner(comment) ==
    <<[tag |-> "details", arg |-> comment.id],
      [tag |-> "summary", arg |-> ""]>>
    \o RenderAuthor(comment)
    \o <<[tag |-> "date", arg |-> ""],
         [tag |-> "/summary", arg |-> ""],
         [tag |-> "blockquote", arg |-> ""],
         [tag |-> "body", arg |-> ""]>>
    \o RenderAll(comment.children, <<>>)
    \o <<[tag |-> "/blockquote", arg |-> ""],
         [tag |-> "/details", arg |-> ""]>>
\* each comment is written in front of the ones before it
RECURSIVE RenderAll_reversed(_, _)
RenderAll_reversed(comments, buf) ==
    IF comments = <<>> THEN buf
    ELSE RenderAll_reversed(Tail(comments),
                            render_comments_html_inner(Head(comments)) \o buf)

\* the for loops of render_comments_html and render_comments_html_inner
RenderAll(comments, buf) ==
    IF comments = <<>> THEN buf
    ELSE RenderAll(Tail(comments),
                   buf \o render_comments_html_inner(Head(comments)))

\* the last root comment and its replies are not rendered
render_comments_html_dropLast(preloads) ==
    RenderAll(SubSeq(preloads.initialComments, 1,
                     Len(preloads.initialComments) - 1), <<>>)

\* render_comments_html
render_comments_html(preloads) == RenderAll(preloads.initialComments, <<>>)

\* scrape_posts 624-636: the section around the rendered comments, with
\* f'<summary>{comments_num} comments</summary>'
CommentsSection(num, html) ==
    <<[tag |-> "hr", arg |-> ""],
      [tag |-> "section.comments", arg |-> ""],
      [tag |-> "h2", arg |-> "Comments"],
      [tag |-> "details.open", arg |-> ""],
      [tag |-> "summary.count", arg |-> num.repr \o " comments"]>>
    \o html
    \o <<[tag |-> "/details.open", arg |-> ""],
         [tag |-> "/section", arg |-> ""]>>

CommentsAtRest ==
    /\ comments_preloads = NoCommentsPreloads
    /\ no_comments = FALSE
    /\ comments_num = PyNone
    /\ comments_html = <<>>
    /\ md_comments = <<>>
    /\ comment_count = PyNone

\* ------------------------------------------------------------------ Init
\* no function is being examined on its own
PathsAtRest ==
    /\ templates = NoTemplates
    /\ md_directory = NoPathValue
    /\ save_path = NoPathValue
    /\ rel_path = NoPathValue

FnAtRest ==
    /\ fn_pc = "rest"
    /\ PathsAtRest
    /\ ExtractAtRest
    /\ OfflineAtRest
    /\ CommentsAtRest

\* an empty output tree and no run
RunAtRest ==
    /\ indexExists = FALSE
    /\ index = <<>>
    /\ imgFiles = {}
    /\ args = NoArgs
    /\ siteVer = "a"
    /\ post_urls = <<>>
    /\ pos = 1
    /\ count = 0
    /\ posts_data = <<>>
    /\ pc = "idle"
    /\ md = <<>>
    /\ imgPos = 1
    /\ mdOut = <<>>
    /\ existing_data = <<>>
    /\ existedBefore = FALSE
    /\ raised = FALSE
    /\ lastDl = NoPath
    /\ dlCalled = {}
    /\ dlNoFile = {}
    /\ netOps = {}
    /\ paywalled = FALSE
    /\ error = NoError

Init == RunAtRest /\ FnAtRest

\* --------------------------------------------------------------- actions
\* __init__ + the head of scrape_posts.  An offline run without posts.json
\* dies in get_all_post_urls_offline (open raises) and changes nothing.
StartRun ==
    /\ pc = "idle"
    /\ \E v \in Versions : siteVer' = v
    /\ \E a \in ArgsSet :
        /\ args' = a
        /\ IF a.offline
           THEN indexExists /\ post_urls' = OfflineUrls(index)
           ELSE \E sitemap \in RawUrlLists :
                \E feed \in (IF sitemap = <<>> THEN RawUrlLists ELSE {<<>>}) :
                    post_urls' = GetAllPostUrls(sitemap, feed)
    /\ pos' = 1
    /\ count' = 0
    /\ posts_data' = <<>>
    /\ pc' = "loop"
    /\ raised' = FALSE
    /\ lastDl' = NoPath
    /\ netOps' = IF args'.offline THEN {} ELSE {"requests.get"}
    /\ paywalled' = FALSE
    /\ error' = NoError
    /\ UNCHANGED <<persistVars, postVars, saveVars, fnVars>>

\* the tail of an iteration without the break
NextIteration_noBreak ==
    /\ count' = count + 1
    /\ pc' = "loop" /\ pos' = pos + 1
    /\ md' = <<>>
    /\ imgPos' = 1
    /\ mdOut' = <<>>

\* count += 1; if num_posts_to_scrape != 0 and count == num_posts_to_scrape:
\* break -- the tail of one iteration of the for loop
NextIteration ==
    /\ count' = count + 1
    /\ IF args.number # 0 /\ count + 1 = args.number
       THEN pc' = "save" /\ pos' = pos
       ELSE pc' = "loop" /\ pos' = pos + 1
    /\ md' = <<>>
    /\ imgPos' = 1
    /\ mdOut' = <<>>

\* "raise e" in the except clause: the exception leaves scrape_posts
HandleException_reraise ==
    /\ raised' = TRUE
    /\ posts_data' = posts_data
    /\ pc' = "idle"
    /\ UNCHANGED <<pos, count>>
    /\ md' = <<>>
    /\ imgPos' = 1
    /\ mdOut' = <<>>

\* the record is appended before the stages that can fail
HandleException_keepPartial ==
    /\ raised' = TRUE
    /\ posts_data' = Append(posts_data, PostRecord(post_urls[pos], siteVer))
    /\ NextIteration

\* except Exception as e: print(...) -- then the tail of the iteration
HandleException ==
    /\ raised' = TRUE
    /\ posts_data' = posts_data
    /\ NextIteration

\* the try body goes on with the next stage of the same post
Continue(stage) ==
    /\ pc' = stage
    /\ raised' = FALSE
    /\ UNCHANGED <<pos, count, posts_data>>

\* where the try body goes after normalization
AfterNormalize == IF args.no_images THEN "comments" ELSE "images"

\* lines 555-590: paths, then the offline or the online acquisition.
\*   ok      - offline: post.json is read; online: the page is fetched and
\*             its preload found
\*   paywall - online only: get_url_soup returns None
\*   error   - offline: open(json_filepath) raises; online: get_url_soup
\*             raises
\*   no_preload - online only: the page has no window._preloads script
BeginPost ==
    /\ pc = "loop"
    /\ pos <= Len(post_urls)
    /\ LET u == post_urls[pos] IN
       \E outcome \in {"ok", "paywall", "error", "no_preload"} :
        /\ paywalled' = (outcome = "paywall")
        /\ CASE outcome = "ok" ->
                /\ md' = BodyOf(u, siteVer)
                /\ imgPos' = 1
                /\ mdOut' = <<>>
                /\ Continue(AfterNormalize)
                /\ error' = NoError
          [] outcome = "paywall" ->
                \* total += 1; continue
                /\ ~args.offline
                /\ pos' = pos + 1
                /\ raised' = FALSE
                /\ error' = NoError
                /\ UNCHANGED <<count, posts_data, pc, postVars>>
          [] outcome = "no_preload" ->
                /\ ~args.offline
                /\ HandleException
                /\ error' = MissingPreloadError(u)
          [] OTHER ->
                /\ HandleException
                /\ error' = IF args.offline THEN Raised("read", "OSError")
                             ELSE Raised("fetch", "ValueError")
    /\ lastDl' = NoPath
    /\ netOps' = IF args.offline THEN {} ELSE {"get_url_soup"}
    /\ UNCHANGED <<persistVars, runVars, saveVars, fnVars>>

\* the for loop is exhausted
LoopExit ==
    /\ pc = "loop"
    /\ pos > Len(post_urls)
    /\ pc' = "save"
    /\ raised' = FALSE
    /\ lastDl' = NoPath
    /\ netOps' = {}
    /\ paywalled' = FALSE
    /\ error' = NoError
    /\ UNCHANGED <<persistVars, runVars, postVars, saveVars, pos, count,
                   posts_data, fnVars>>

\* one match of pattern.finditer in process_markdown_images
ProcessImage ==
    /\ pc = "images"
    /\ imgPos <= Len(md)
    /\ LET u == post_urls[pos]
           url == md[imgPos] IN
       \E head \in (IF HeadCalled(url) THEN HeadOutcomes ELSE {"ok"}) :
        LET filename == ImageFilename(url, head)
            path == SavePath(u, filename)
            headOps == IF HeadCalled(url) THEN {"requests.head"} ELSE {} IN
        IF filename = "raise"
        THEN /\ HandleException
             /\ lastDl' = NoPath
             /\ netOps' = headOps
             /\ error' = IF url.up THEN Raised("head", "RequestException")
                          ELSE Raised("filename", "IndexError")
             /\ UNCHANGED <<imgFiles, dlCalled, dlNoFile>>
        ELSE /\ IF NeedsDownload(path, imgFiles, args.offline)
                THEN \E outcome \in DownloadOutcomes :
                        /\ imgFiles' = IF DownloadStores(outcome)
                                       THEN imgFiles \cup {path} ELSE imgFiles
                        /\ dlNoFile' = IF outcome \in {"status", "exc_nofile"}
                                       THEN dlNoFile \cup {path}
                                       ELSE dlNoFile \ {path}
                        /\ dlCalled' = dlCalled \cup {path}
                        /\ lastDl' = path
                        /\ netOps' = headOps \cup {"download_image"}
                ELSE /\ lastDl' = NoPath
                     /\ netOps' = headOps
                     /\ UNCHANGED <<imgFiles, dlCalled, dlNoFile>>
             /\ mdOut' = Append(mdOut, path)
             /\ imgPos' = imgPos + 1
             /\ Continue("images")
             /\ error' = NoError
             /\ UNCHANGED md
    /\ paywalled' = FALSE
    /\ UNCHANGED <<indexExists, index, runVars, saveVars, fnVars>>

\* process_markdown_images returns
ImagesDone ==
    /\ pc = "images"
    /\ imgPos > Len(md)
    /\ Continue("comments")
    /\ lastDl' = NoPath
    /\ netOps' = {}
    /\ paywalled' = FALSE
    /\ error' = NoError
    /\ UNCHANGED <<persistVars, runVars, postVars, saveVars, fnVars>>

\* lines 598-637: the comments of the post.
\*   ok    - --no-comments, or the comments preload is obtained, counted
\*           and rendered
\*   error - offline: comments.json cannot be read; online: get_url_soup
\*           raises, no preload is found, or count/render/save_to_file
\*           raises
\*   paywall - online only: get_url_soup returns None for the comments
\*           page, and get_window_preloads(None) raises at soup.select
\* The comments page is fetched in an online run without --no-comments.
Comments ==
    /\ pc = "comments"
    /\ \E skip \in BOOLEAN :      \* self.args.no_comments
        /\ \E outcome \in CommentsOutcomes(skip, args.offline) :
            /\ paywalled' = (outcome = "paywall")
            /\ IF outcome = "ok"
               THEN /\ Continue("write")
                    /\ error' = NoError
                    /\ UNCHANGED postVars
               ELSE /\ HandleException
                    /\ error' = IF outcome = "paywall" THEN NoneSoupError
                                 ELSE Raised("comments", "Exception")
        /\ netOps' = IF ~skip /\ ~args.offline
                      THEN {"get_url_soup"} ELSE {}
    /\ lastDl' = NoPath
    /\ UNCHANGED <<persistVars, runVars, saveVars, fnVars>>

\* lines 639-664: readme.md, post.json and index.html of the post are
\* written (error: one of the writes raises), then the record is appended
WritePost ==
    /\ pc = "write"
    /\ LET u == post_urls[pos] IN
       \E outcome \in {"ok", "error"} :
        IF outcome = "ok"
        THEN /\ posts_data' = Append(posts_data, PostRecord(u, siteVer))
             /\ raised' = FALSE
             /\ error' = NoError
             /\ NextIteration
        ELSE /\ HandleException
             /\ error' = Raised("write", "OSError")
    /\ lastDl' = NoPath
    /\ netOps' = {}
    /\ paywalled' = FALSE
    /\ UNCHANGED <<persistVars, runVars, saveVars, fnVars>>

\* self.save_posts_data_json(posts_data)
SavePostsDataJson ==
    /\ pc = "save"
    /\ existing_data' = IF indexExists THEN index ELSE <<>>
    /\ existedBefore' = indexExists
    /\ index' = SavePostsData(index, indexExists, posts_data)
    /\ indexExists' = TRUE
    /\ posts_data' = CallerListAfterSave(indexExists, posts_data)
    /\ pc' = "html"
    /\ raised' = FALSE
    /\ lastDl' = NoPath
    /\ netOps' = {}
    /\ paywalled' = FALSE
    /\ error' = NoError
    /\ UNCHANGED <<imgFiles, dlCalled, dlNoFile, runVars, postVars, pos, count,
                   fnVars>>

\* self.generate_main_html_file(); the run is over
GenerateMainHtml ==
    /\ pc = "html"
    /\ pc' = "idle"
    /\ args' = NoArgs
    /\ siteVer' = "a"
    /\ post_urls' = <<>>
    /\ pos' = 1
    /\ count' = 0
    /\ posts_data' = <<>>
    /\ existing_data' = <<>>
    /\ existedBefore' = FALSE
    /\ raised' = FALSE
    /\ lastDl' = NoPath
    /\ netOps' = {}
    /\ paywalled' = FALSE
    /\ error' = NoError
    /\ UNCHANGED <<persistVars, postVars, fnVars>>

Next ==
    \/ StartRun
    \/ BeginPost
    \/ LoopExit
    \/ ProcessImage
    \/ ImagesDone
    \/ Comments
    \/ WritePost
    \/ SavePostsDataJson
    \/ GenerateMainHtml

Spec == Init /\ [][Next]_vars

\* ------------------------------------------------- one image reference
\* the variables of a run, which stay as Init leaves them
runAtRestVars ==
    <<indexExists, index, imgFiles, args, siteVer, post_urls, pos, count,
      posts_data, pc, md, imgPos, mdOut, existing_data, existedBefore,
      raised, lastDl, dlCalled, dlNoFile, netOps, paywalled, error>>

\* scrape_posts 540-563 and process_markdown_images 758-766: the paths of one
\* post and of one image reference of it
ResolvePaths ==
    /\ fn_pc = "paths"
    /\ LET fv == FormatVars(templates)
           output_directory == Substitute(templates.output_directory_format, fv)
           md_filepath == PathJoin(output_directory,
                                   Substitute(templates.md_path_format, fv)) IN
        /\ md_directory' = DirName(md_filepath)
        /\ save_path' = PathJoin(output_directory,
                                 Substitute(templates.image_path_format, fv))
    /\ fn_pc' = "resolved"
    /\ UNCHANGED <<runAtRestVars, extractVars, offlineVars, commentVars,
                   templates, rel_path>>

\* process_markdown_images 767-772
WriteReference ==
    /\ fn_pc = "resolved"
    /\ rel_path' = WrittenPath(save_path, md_directory, templates.cwd)
    /\ fn_pc' = "written"
    /\ UNCHANGED <<runAtRestVars, extractVars, offlineVars, commentVars,
                   templates, md_directory, save_path>>

InitPaths ==
    /\ RunAtRest
    /\ fn_pc = "paths"
    /\ templates \in TemplateInputs
    /\ md_directory = NoPathValue
    /\ save_path = NoPathValue
    /\ rel_path = NoPathValue
    /\ ExtractAtRest
    /\ OfflineAtRest
    /\ CommentsAtRest

NextPaths == ResolvePaths \/ WriteReference

SpecPaths == InitPaths /\ [][NextPaths]_vars

\* ------------------------------------------------- one post, both branches
\* scrape_posts 582-587 and 641-647: the online branch, which persists the
\* preload of the page as post.json
NormalizeOnline ==
    /\ fn_pc = "fetched"
    /\ online_fields' = ExtractPostData(soup)
    /\ post_preloads' = GetWindowPreloads(soup)
    /\ fn_pc' = "persisted"
    /\ UNCHANGED <<runAtRestVars, pathVars, offlineVars, commentVars, soup,
                   offline_fields>>

\* scrape_posts 574-580: the offline branch on the persisted post.json
NormalizeOffline ==
    /\ fn_pc = "persisted"
    /\ offline_fields' = ExtractPostDataFromPreloads(post_preloads)
    /\ fn_pc' = "replayed"
    /\ UNCHANGED <<runAtRestVars, pathVars, offlineVars, commentVars, soup,
                   post_preloads, online_fields>>

InitExtract ==
    /\ RunAtRest
    /\ fn_pc = "fetched"
    /\ PathsAtRest
    /\ OfflineAtRest
    /\ CommentsAtRest
    /\ \E p \in PostPreloads : soup \in PagesOf(p)
    /\ post_preloads = NoPreloads
    /\ online_fields = NoFields
    /\ offline_fields = NoFields

NextExtract == NormalizeOnline \/ NormalizeOffline

SpecExtract == InitExtract /\ [][NextExtract]_vars

\* ------------------------------------------------- an archive read back
\* an online run in which every post of the URL list is archived:
\* scrape_posts appends their records and save_posts_data_json writes them
OnlineRun ==
    /\ fn_pc \in {"fresh", "archived"}
    /\ \E urls \in UrlLists :
        LET batch == [i \in DOMAIN urls |-> IndexRecord(urls[i], templates)] IN
        /\ posts_json' = SavePostsData(posts_json, fn_pc = "archived", batch)
        /\ scraped' = scraped \cup {SlugName(urls[i]) : i \in DOMAIN urls}
    /\ fn_pc' = "archived"
    /\ UNCHANGED <<runAtRestVars, pathVars, extractVars, commentVars,
                   offline_urls>>

\* __init__ of a run with --offline: self.get_all_post_urls()
ListOffline ==
    /\ fn_pc = "archived"
    /\ offline_urls' = GetAllPostUrlsOffline(posts_json)
    /\ fn_pc' = "listed"
    /\ UNCHANGED <<runAtRestVars, pathVars, extractVars, commentVars,
                   posts_json, scraped>>

InitOffline ==
    /\ RunAtRest
    /\ fn_pc = "fresh"
    /\ templates \in TemplateInputs
    /\ md_directory = NoPathValue
    /\ save_path = NoPathValue
    /\ rel_path = NoPathValue
    /\ ExtractAtRest
    /\ OfflineAtRest
    /\ CommentsAtRest

NextOffline == OnlineRun \/ ListOffline

SpecOffline == InitOffline /\ [][NextOffline]_vars

\* ------------------------------------------------- the comments of a post
otherFnVars == <<pathVars, extractVars, offlineVars>>

\* scrape_posts 599-621: comments_num = self.count_comments(...) unless
\* --no-comments
CountComments ==
    /\ fn_pc = "comments"
    /\ comments_num' = IF no_comments THEN PyNone
                       ELSE PyInt(count_comments(comments_preloads))
    /\ fn_pc' = "counted"
    /\ UNCHANGED <<runAtRestVars, otherFnVars, comments_preloads, no_comments,
                   comments_html, md_comments, comment_count>>

\* scrape_posts 622-637: if comments_num > 0 the comments are rendered,
\* wrapped into the comments section and appended to md
RenderComments ==
    /\ fn_pc = "counted"
    /\ comments_html' =
          IF ~no_comments /\ count_comments(comments_preloads) > 0
          THEN render_comments_html(comments_preloads) ELSE <<>>
    /\ md_comments' =
          IF ~no_comments /\ count_comments(comments_preloads) > 0
          THEN CommentsSection(comments_num, comments_html') ELSE <<>>
    /\ fn_pc' = "rendered"
    /\ UNCHANGED <<runAtRestVars, otherFnVars, comments_preloads, no_comments,
                   comments_num, comment_count>>

\* scrape_posts 653-664: "comment_count": comments_num
AppendRecord ==
    /\ fn_pc = "rendered"
    /\ comment_count' = comments_num
    /\ fn_pc' = "appended"
    /\ UNCHANGED <<runAtRestVars, otherFnVars, comments_preloads, no_comments,
                   comments_num, comments_html, md_comments>>

InitComments ==
    /\ RunAtRest
    /\ fn_pc = "comments"
    /\ PathsAtRest
    /\ ExtractAtRest
    /\ OfflineAtRest
    /\ comments_preloads \in CommentsPreloads
    /\ no_comments \in BOOLEAN
    /\ comments_num = PyNone
    /\ comments_html = <<>>
    /\ md_comments = <<>>
    /\ comment_count = PyNone

NextComments == CountComments \/ RenderComments \/ AppendRecord

SpecComments == InitComments /\ [][NextComments]_vars

TypeOK ==
    /\ indexExists \in BOOLEAN
    /\ pc \in {"idle", "loop", "images", "comments", "write", "save", "html"}
    /\ imgPos \in 1..(Len(md) + 1)
    /\ Len(posts_data) <= count + 1

\* ===================================================================
\* Properties
\* ===================================================================
CountId(s, x) == Cardinality({i \in DOMAIN s : s[i].id = x})
InPost == pc \in {"images", "comments", "write"}

\* C1: after save_posts_data_json(B) the persisted index contains every
\* record of the loaded index E whose id does not occur in B, together with
\* every record of B.
C1_MergeKeepsExisting ==
    pc = "html" =>
        /\ \A i \in DOMAIN existing_data :
              existing_data[i].id \notin IdSet(posts_data)
                  => existing_data[i] \in Range(index)
        /\ Range(posts_data) \subseteq Range(index)

\* C2: id precedence -- when the batch holds exactly one record with id X and
\* the loaded index holds a record with id X, the written index holds exactly
\* one record with id X and it is the batch's record.
C2_IdPrecedence ==
    (pc = "html" /\ existedBefore) =>
        \A x \in IdSet(existing_data) :
            CountId(posts_data, x) = 1 =>
                /\ CountId(index, x) = 1
                /\ \A i \in DOMAIN index :
                      index[i].id = x => index[i] \in Range(posts_data)

\* a batch record replaced a persisted record of the same id and other fields
C2_Witness ==
    /\ pc = "html"
    /\ existedBefore
    /\ \E i \in DOMAIN existing_data : \E j \in DOMAIN posts_data :
          /\ existing_data[i].id = posts_data[j].id
          /\ existing_data[i].ver # posts_data[j].ver
          /\ CountId(posts_data, posts_data[j].id) = 1

\* C3: idempotent merge -- calling save_posts_data_json again with the same
\* batch leaves posts.json with the same sequence of ids as the first call.
C3_IdempotentMerge ==
    pc = "html" =>
        Ids(SavePostsData(index, TRUE, posts_data)) = Ids(index)

\* a batch of two posts in ascending id order was merged over an existing file
C3_Witness ==
    /\ pc = "html"
    /\ existedBefore
    /\ Len(existing_data) > 0
    /\ Len(posts_data) >= 2
    /\ posts_data[1].id < posts_data[2].id

\* C4: descending order -- every adjacent pair of records of posts.json
\* satisfies ids[i] >= ids[i+1].
C4_DescendingOrder ==
    \A i \in 1..(Len(index) - 1) : index[i].id >= index[i + 1].id

\* the batch arrived in ascending order and the written index holds both ids
C4_Witness ==
    /\ pc = "html"
    /\ Len(posts_data) >= 2
    /\ \E i \in DOMAIN posts_data : \E j \in DOMAIN posts_data :
          i < j /\ posts_data[i].id < posts_data[j].id
    /\ Len(index) >= 2
    /\ index[1].id > index[Len(index)].id

\* C5: no two records of the persisted index have the same id, whatever the
\* discovered URL list is.
C5_NoDuplicateIds ==
    \A i \in DOMAIN index : \A j \in DOMAIN index :
        i # j => index[i].id # index[j].id

\* what is left of a run: positive while the run lasts, and every step of
\* the run makes it smaller
StageRank ==
    CASE pc = "images"   -> 3 + (Len(md) + 1 - imgPos)
      [] pc = "comments" -> 2
      [] pc = "write"    -> 1
      [] OTHER           -> 0
Rank ==
    CASE pc = "idle" -> 0
      [] pc = "html" -> 1
      [] pc = "save" -> 2
      [] pc = "loop" -> 3 + 7 * (Len(post_urls) + 1 - pos)
      [] OTHER       -> 3 + 7 * (Len(post_urls) - pos) + StageRank

\* C6: per-post failure isolation -- a step that ends in the except clause
\* keeps the records appended so far and goes on with the next URL, or
\* leaves the loop only because the -n limit is reached; the loop is left
\* only when the URL list is exhausted or the limit is reached, and then
\* posts.json is written from the batch and the index page is generated.
\* The run cannot stop before that: it always has a next step, and each
\* step brings it closer to the end of the run.
C6_FailureIsolation ==
    /\ [](pc # "idle" => ENABLED Next)
    /\ [][pc # "idle" => Rank' < Rank /\ Rank' >= 0]_vars
    /\ [][raised' =>
            /\ SubSeq(posts_data', 1, Len(posts_data)) = posts_data
            /\ count' = count + 1
            /\ \/ pc' = "loop" /\ pos' = pos + 1
               \/ pc' = "save" /\ args.number # 0 /\ count' = args.number]_vars
    /\ [](pc = "save" =>
            \/ pos > Len(post_urls)
            \/ args.number # 0 /\ count = args.number)
    /\ [][pc = "save" =>
            pc' = "html" /\ Range(posts_data) \subseteq Range(index')]_vars
    /\ [][pc = "html" => pc' = "idle"]_vars

\* the first URL failed, the second one was processed and is in the index
C6_Witness ==
    /\ pc = "html"
    /\ Len(post_urls) = 2
    /\ post_urls[1] # post_urls[2]
    /\ count = 2
    /\ Len(posts_data) = 1
    /\ posts_data[1].slug = post_urls[2]
    /\ posts_data[1] \in Range(index)

\* C7: no partial record -- a step that ends in the except clause appends
\* nothing; a record is appended only by the step that follows normalization,
\* image processing and comment extraction of that post, and it is that
\* post's record; the written index holds only records of the batch or of
\* the loaded index.
C7_NoPartialRecord ==
    /\ [][/\ raised' => posts_data' = posts_data
          /\ (InPost \/ pc = "loop") /\ posts_data' # posts_data =>
                /\ pc = "write"
                /\ ~raised'
                /\ posts_data' = Append(posts_data,
                                        PostRecord(post_urls[pos], siteVer))]_vars
    /\ [](InPost => Len(posts_data) <= count)
    /\ [](pc = "html" =>
            Range(index) \subseteq Range(posts_data) \cup Range(existing_data))

\* one attempt of the run appended its record and a later step of the run
\* ended in the except clause
C7_Witness ==
    /\ raised
    /\ pc \in {"loop", "save"}
    /\ Len(posts_data) = 1
    /\ count = 2

\* C8: process_markdown_images never calls download_image for a reference
\* whose resolved local path already exists.
C8_NoRedownload ==
    [][lastDl' # NoPath => lastDl' \notin imgFiles]_vars

\* a reference whose file exists was rewritten in an online run without a
\* download call
C8_Witness ==
    /\ pc = "images"
    /\ ~args.offline
    /\ imgPos > 1
    /\ lastDl = NoPath
    /\ mdOut[imgPos - 1] \in imgFiles

\* C9 (as claimed): download_image is called at most once in total for the
\* same CDN URL of a body, over all its occurrences and runs.
C9_AtMostOneCall ==
    [][lastDl' # NoPath => lastDl' \notin dlCalled]_vars

\* C9 (amended): download_image is called again for the resolved path of a
\* URL only when the previous call for it left no file there.
C9_CallAgainOnlyAfterFailure ==
    [][(lastDl' # NoPath /\ lastDl' \in dlCalled) => lastDl' \in dlNoFile]_vars

\* the second reference of the body was served from the file that the
\* download of the first one stored
C9_Witness ==
    /\ pc = "images"
    /\ md = <<U_named, U_named>>
    /\ imgPos = 3
    /\ lastDl = NoPath
    /\ mdOut[2] \in dlCalled
    /\ mdOut[2] \in imgFiles
    /\ ~args.offline

\* C10: a failure while handling one image reference never fails the post:
\* no step of process_markdown_images ends in the except clause of the loop.
C10_ImageFailureNeverFailsPost ==
    [][pc = "images" => ~raised']_vars
\* the directory a written path points into, seen from the Markdown file:
\* the components of start followed by those of rel, ".." removing the
\* component before it
RECURSIVE Normalize(_, _)
Normalize(parts, acc) ==
    IF parts = <<>> THEN acc
    ELSE IF Head(parts) = ".." /\ acc # <<>>
         THEN Normalize(Tail(parts), SubSeq(acc, 1, Len(acc) - 1))
         ELSE Normalize(Tail(parts), Append(acc, Head(parts)))
ResolveFrom(start, rel, cwd) ==
    [abs |-> TRUE,
     parts |-> Normalize(AbsPath(PathJoin(start, rel), cwd).parts, <<>>)]

\* the file on disk is where the image format puts it under the output root
OnDiskUnderRoot ==
    LET fv == FormatVars(templates)
        root == Substitute(templates.output_directory_format, fv)
        img == Substitute(templates.image_path_format, fv) IN
    IF img.abs THEN save_path = img
    ELSE /\ save_path.abs = root.abs
         /\ SubSeq(save_path.parts, 1, Len(root.parts)) = root.parts
         /\ SubSeq(save_path.parts, Len(root.parts) + 1, Len(save_path.parts))
                = img.parts

\* C11 (as claimed): whatever the formats resolve to, the path written into
\* the Markdown is relative and leads from the directory of the Markdown
\* file to the file on disk, which is at the image format's path under the
\* output root.
C11_WrittenPathIsRelative ==
    fn_pc = "written" =>
        /\ ~IsAbs(rel_path)
        /\ ResolveFrom(md_directory, rel_path, templates.cwd)
              = AbsPath(save_path, templates.cwd)
        /\ OnDiskUnderRoot

\* C11 (amended): a relative resolved image path is written relative to the
\* directory of the Markdown file; an absolute one is written as it is; the
\* file on disk is at the image format's path under the output root.
C11_RelativeUnlessAbsolute ==
    fn_pc = "written" =>
        /\ ~IsAbs(save_path) =>
              /\ ~IsAbs(rel_path)
              /\ ResolveFrom(md_directory, rel_path, templates.cwd)
                    = AbsPath(save_path, templates.cwd)
        /\ IsAbs(save_path) => rel_path = save_path
        /\ OnDiskUnderRoot

\* a relative image path outside the directory of the Markdown file was
\* written with a leading ".."
C11_Witness ==
    /\ fn_pc = "written"
    /\ ~IsAbs(save_path)
    /\ ~IsAbs(md_directory)
    /\ rel_path.parts # <<>>
    /\ Head(rel_path.parts) = ".."
\* C12: offline replay is network-free -- no step of a run with --offline
\* invokes requests.get, requests.head, get_url_soup or download_image.
C12_OfflineNetworkFree ==
    args.offline => netOps = {}
\* C13: offline/online parity -- the title, subtitle, date and like_count
\* that the online branch takes from a page are identical to those the
\* offline branch takes from the preload persisted from that page.
C13_OfflineOnlineParity ==
    fn_pc = "replayed" => online_fields = offline_fields
\* C14: offline URL reconstruction -- for any path formats and any sequence
\* of earlier online runs, get_all_post_urls_offline returns from posts.json
\* the URLs base + "p/" + slug of the posts that the online runs archived.
C14_OfflineUrlReconstruction ==
    fn_pc = "listed" =>
        Range(offline_urls) = {PostUrl(slug) : slug \in scraped}
\* ---- the comments of a preload, addressed by their position in the tree
\* a comment at position <<i1, .., ik>> has at least i1 + .. + ik comments
\* before or above it, itself included
RECURSIVE PathsUpTo(_)
PathsUpTo(n) ==
    {<<>>} \cup UNION {{<<i>> \o p : p \in PathsUpTo(n - i)} : i \in 1..n}
Paths == PathsUpTo(MaxComments) \ {<<>>}

RECURSIVE IsComment(_, _)
IsComment(comments, path) ==
    /\ path[1] \in DOMAIN comments
    /\ Len(path) = 1 \/ IsComment(comments[path[1]].children, Tail(path))

RECURSIVE CommentAt(_, _)
CommentAt(comments, path) ==
    IF Len(path) = 1 THEN comments[path[1]]
    ELSE CommentAt(comments[path[1]].children, Tail(path))

CommentIds == {p \in Paths : IsComment(comments_preloads.initialComments, p)}

\* p is q or an ancestor of q
IsPrefix(p, q) == Len(p) <= Len(q) /\ SubSeq(q, 1, Len(p)) = p

\* the comments of the subtree of p
Subtree(p) == {q \in CommentIds : IsPrefix(p, q)}

\* C15: comment count consistency -- for every comment tree count_comments
\* counts the root and all its descendants, for a preload the sum over its
\* roots, and this value is stored as comment_count of the record (null
\* with --no-comments).
C15_CommentCount ==
    /\ \A p \in CommentIds :
          count_comments_inner(CommentAt(comments_preloads.initialComments, p))
              = Cardinality(Subtree(p))
    /\ fn_pc \in {"counted", "rendered", "appended"} =>
          comments_num = IF no_comments THEN PyNone
                         ELSE PyInt(Cardinality(CommentIds))
    /\ fn_pc = "appended" =>
          comment_count = IF no_comments THEN PyNone
                          ELSE PyInt(Cardinality(CommentIds))

\* a root with two children, one of which has one grandchild: 4 is stored
C15_Witness ==
    /\ fn_pc = "appended"
    /\ ~no_comments
    /\ Len(comments_preloads.initialComments) = 1
    /\ LET root == comments_preloads.initialComments[1] IN
        /\ Len(root.children) = 2
        /\ \E i \in 1..2 : Len(root.children[i].children) = 1
    /\ comment_count = PyInt(4)

\* ---- the rendered comments, read token by token
IsOpen(i) == comments_html[i].tag = "details"
IsClose(i) == comments_html[i].tag = "/details"
Opens == {i \in DOMAIN comments_html : IsOpen(i)}
Closes == {i \in DOMAIN comments_html : IsClose(i)}

\* opening minus closing details elements among the tokens i..j
Balance(i, j) ==
    Cardinality({k \in i..j : IsOpen(k)}) - Cardinality({k \in i..j : IsClose(k)})

\* the closing element that matches the opening element at i
IsMatch(i, j) ==
    /\ j > i
    /\ IsClose(j)
    /\ Balance(i, j) = 0
    /\ \A k \in i..(j - 1) : Balance(i, k) > 0

\* p comes before q in depth-first pre-order with siblings in source order
RECURSIVE PreOrderBefore(_, _)
PreOrderBefore(p, q) ==
    IF p = <<>> THEN q # <<>>
    ELSE IF q = <<>> THEN FALSE
    ELSE IF Head(p) # Head(q) THEN Head(p) < Head(q)
    ELSE PreOrderBefore(Tail(p), Tail(q))

Rendered == fn_pc \in {"rendered", "appended"} /\ ~no_comments

\* C16: rendering order -- the comments are emitted in depth-first
\* pre-order, the opening element of a comment before all its descendants
\* and its closing element after them, roots and children in the order of
\* the source arrays; every comment is emitted exactly once.
C16_RenderingOrder ==
    Rendered =>
        /\ {comments_html[i].arg : i \in Opens} = CommentIds
        /\ Cardinality(Opens) = Cardinality(CommentIds)
        /\ Cardinality(Closes) = Cardinality(Opens)
        /\ \A i \in Opens : \A j \in Opens :
              i < j => PreOrderBefore(comments_html[i].arg, comments_html[j].arg)
        /\ \A i \in Opens :
              \E j \in Closes :
                /\ IsMatch(i, j)
                /\ {comments_html[k].arg : k \in {o \in Opens : i <= o /\ o < j}}
                      = Subtree(comments_html[i].arg)

\* two roots were rendered, the first of which has two replies
C16_Witness ==
    /\ Rendered
    /\ Len(comments_preloads.initialComments) = 2
    /\ Len(comments_preloads.initialComments[1].children) = 2
    /\ Cardinality(Opens) = 4

\* the comment whose opening element is token i
CommentOf(i) == CommentAt(comments_preloads.initialComments, comments_html[i].arg)

\* the profile link keyed by the user id, around one text
LinkedAt(i, c) ==
    /\ comments_html[i + 2].tag = "a.user"
    /\ comments_html[i + 2].arg = c.user_id.repr
    /\ comments_html[i + 3].tag = "text"
    /\ comments_html[i + 4].tag = "/a"

\* C17 (as claimed): when user_id is present the author is wrapped in a
\* profile link keyed by it, and when user_id is absent the fallback marker
\* is rendered in place of the author -- whatever the name is.
C17_AuthorByUserId ==
    Rendered =>
        \A i \in Opens :
            LET c == CommentOf(i) IN
            IF c.user_id # PyNone
            THEN LinkedAt(i, c)
            ELSE /\ comments_html[i + 2].tag = "text"
                 /\ comments_html[i + 2].arg = "null"

\* C17 (amended): the profile link keyed by user_id is written exactly when
\* user_id is present; the text is the name when the name is present and
\* the fallback marker when it is absent, with or without the link.
C17_LinkByUserIdMarkerByName ==
    Rendered =>
        \A i \in Opens :
            LET c == CommentOf(i)
                text == IF c.name # PyNone THEN c.name.repr ELSE "null" IN
            IF c.user_id # PyNone
            THEN /\ LinkedAt(i, c)
                 /\ comments_html[i + 3].arg = text
            ELSE /\ comments_html[i + 2].tag = "text"
                 /\ comments_html[i + 2].arg = text
                 /\ \A k \in DOMAIN comments_html :
                       (i < k /\ k < i + 4) => comments_html[k].tag # "a.user"

\* a comment without user_id but with a name and a reply with a user_id but
\* without a name were rendered
C17_Witness ==
    /\ Rendered
    /\ \E i \in Opens : \E j \in Opens :
          /\ CommentOf(i).user_id = PyNone /\ CommentOf(i).name # PyNone
          /\ CommentOf(j).user_id # PyNone /\ CommentOf(j).name = PyNone
\* C18: URL discovery returns a deduplicated list -- whatever the sitemap or
\* the feed contains, the list that scrape_posts iterates holds no URL twice.
C18_DiscoveryDeduplicated ==
    ~args.offline =>
        \A i \in DOMAIN post_urls : \A j \in DOMAIN post_urls :
            i # j => post_urls[i] # post_urls[j]
\* C19: missing preload structure -- when the fetched page has no script
\* that starts with the preload marker, get_window_preloads fails with an
\* assertion error whose message identifies the requested URL; the except
\* clause of the loop gets it, nothing is appended for the post and the
\* loop goes on with the next URL.
C19_MissingPreloadAssertion ==
    [][error'.cause = "no_preload" =>
          /\ error'.type = "AssertionError"
          /\ error'.mentions = {post_urls[pos]}
          /\ raised'
          /\ posts_data' = posts_data
          /\ pc' \in {"loop", "save"}]_vars
\* how often record r occurs in s
Occurrences(s, r) == Cardinality({i \in DOMAIN s : s[i] = r})

\* C20: missing index file -- when posts.json does not exist,
\* save_posts_data_json loads nothing, raises nothing and writes exactly the
\* records of the batch, in descending id order.
C20_MissingIndexFile ==
    [][(pc = "save" /\ ~indexExists) =>
          /\ existing_data' = <<>>
          /\ ~raised'
          /\ error' = NoError
          /\ pc' = "html"
          /\ indexExists'
          /\ Len(index') = Len(posts_data)
          /\ \A r \in Range(posts_data) \cup Range(index') :
                Occurrences(index', r) = Occurrences(posts_data, r)
          /\ \A i \in 1..(Len(index') - 1) :
                index'[i].id >= index'[i + 1].id]_vars

\* the first run archived two posts in ascending id order
C20_Witness ==
    /\ pc = "html"
    /\ ~existedBefore
    /\ post_urls = <<1, 2>>
    /\ Len(index) = 2
    /\ index[1].id = 2
    /\ index[2].id = 1

\* C21: paywall handling -- a step in which get_url_soup finds the paywall
\* marker and returns None, for the post page or for the comments page of
\* the post, ends without an exception: nothing is raised or logged, no
\* file is written, no record is appended, and the loop is at the next URL.
C21_PaywallIsSkip ==
    [][paywalled' =>
          /\ ~raised'
          /\ error' = NoError
          /\ posts_data' = posts_data
          /\ imgFiles' = imgFiles
          /\ index' = index
          /\ pc' = "loop"
          /\ pos' = pos + 1]_vars

\* the stages of the for loop of scrape_posts
InLoop == pc \in {"loop", "images", "comments", "write"}

\* C22: post limit -- with --number N > 0 the batch never holds more than N
\* records and the loop is left as soon as N URLs have been attempted: an
\* attempt that ends in the except clause counts, a URL skipped as
\* paywalled does not.  With N = 0 the loop is left only when the URL list
\* is exhausted.  In both cases the loop ends (every step of a run makes
\* what is left of it smaller, and a run always has a next step) and
\* posts.json is written.
C22_PostLimit ==
    /\ [](CASE InLoop ->
                 /\ pos <= Len(post_urls) + 1
                 /\ Len(posts_data) <= count
                 /\ args.number # 0 => count < args.number
                 /\ ENABLED Next
            [] pc = "save" ->
                 /\ Len(posts_data) <= count
                 /\ args.number # 0 => count <= args.number
                 /\ IF args.number = 0 THEN pos > Len(post_urls)
                    ELSE count = args.number \/ pos > Len(post_urls)
                 /\ ENABLED Next
            [] OTHER -> TRUE)
    /\ [][CASE InLoop ->
                 /\ Rank' < Rank /\ Rank' >= 2
                 /\ IF paywalled' /\ ~raised'
                    THEN count' = count /\ pos' = pos + 1 /\ pc' = "loop"
                    ELSE (raised' \/ Len(posts_data') > Len(posts_data)) =>
                            /\ count' = count + 1
                            /\ IF args.number # 0 /\ count' = args.number
                               THEN pc' = "save"
                               ELSE pc' = "loop" /\ pos' = pos + 1
            [] pc = "save" -> pc' = "html" /\ indexExists'
            [] OTHER -> TRUE]_vars

\* the limit is reached by an attempt that failed, after a paywalled URL
\* was skipped, with the URL list not exhausted
C22_Witness ==
    /\ pc = "save"
    /\ args.number # 0
    /\ count = args.number
    /\ raised
    /\ pos > count
    /\ pos <= Len(post_urls)

\* the comment elements of a token sequence
OpensOf(html) == {i \in DOMAIN html : html[i].tag = "details"}
ClosesOf(html) == {i \in DOMAIN html : html[i].tag = "/details"}

\* how many comment elements are open in front of token i
DepthAt(html, i) ==
    Cardinality({k \in OpensOf(html) : k < i})
        - Cardinality({k \in ClosesOf(html) : k < i})

\* C23: count/render agreement -- render_comments_html emits one opening
\* and one matching closing comment element per comment of the preload,
\* nested by the depth of the comment in the tree, and their number is
\* count_comments of the same preload; scrape_posts appends a comments
\* section to the Markdown exactly when comments are enabled and that
\* count is greater than 0, and the section is labelled with the count and
\* holds that many comment elements.
C23_CountRenderAgreement ==
    fn_pc \in {"rendered", "appended"} =>
        LET n == count_comments(comments_preloads)
            html == render_comments_html(comments_preloads)
            labels == {i \in DOMAIN md_comments :
                          md_comments[i].tag = "summary.count"} IN
        /\ Cardinality(OpensOf(html)) = n
        /\ Cardinality(ClosesOf(html)) = n
        /\ \A i \in OpensOf(html) :
              /\ DepthAt(html, i) = Len(html[i].arg) - 1
              /\ \E j \in ClosesOf(html) :
                    /\ i < j
                    /\ DepthAt(html, j + 1) = DepthAt(html, i)
                    /\ \A k \in (i + 1)..j : DepthAt(html, k) > DepthAt(html, i)
        /\ (md_comments # <<>>) <=> (~no_comments /\ n > 0)
        /\ md_comments # <<>> =>
              /\ comments_num = PyInt(n)
              /\ Cardinality(labels) = 1
              /\ \A i \in labels :
                    md_comments[i].arg = ToString(n) \o " comments"
              /\ Cardinality(OpensOf(md_comments)) = n
              /\ Cardinality(ClosesOf(md_comments)) = n
              /\ md_comments[1].tag = "hr"
              /\ md_comments[Len(md_comments)].tag = "/section"

\* a post with three comments, one of them a reply to the second root, got
\* its section
C23_Witness ==
    /\ fn_pc = "rendered"
    /\ ~no_comments
    /\ Len(comments_preloads.initialComments) = 2
    /\ Len(comments_preloads.initialComments[2].children) = 1
    /\ comments_num = PyInt(3)
    /\ md_comments # <<>>
====
